---- MODULE Spec2Model ----
(***************************************************************************)
(* Model of the in-memory voting service of main.go: the two package-level *)
(* maps voteCounts and userVotes, the sync.Mutex that guards them, and the *)
(* two HTTP handlers voteHandler (POST /vote) and resultsHandler           *)
(* (GET /results), each run by its own goroutine and interleaved statement *)
(* by statement.                                                           *)
(***************************************************************************)
EXTENDS Integers, Sequences, FiniteSets, TLC

\* ------------------------------------------------------------------ bounds
\* Number of goroutines that serve requests at the same time.
NumProcs == 2
\* Number of distinct user identifiers that clients send.
NumUsers == 2
\* Total number of requests served in one run.
MaxRequests == 3

Procs == 1..NumProcs
\* UserID is an opaque string; the model names the users 1..NumUsers.
Users == 1..NumUsers

\* ------------------------------------------------------------- Go maps
\* m[k] of a Go map: the zero value when the key is missing.
MapGet(m, k, zero) == IF k \in DOMAIN m THEN m[k] ELSE zero
\* The "comma ok" form: v, ok := m[k].
MapHas(m, k) == k \in DOMAIN m
\* m[k] = v of a Go map: the key is added when it is missing.
MapSet(m, k, v) == [x \in (DOMAIN m) \cup {k} |-> IF x = k THEN v ELSE m[x]]

\* --------------------------------------------------------- program data
\* The three vote options that main.go seeds voteCounts with
\* ("あつい", "ちょうどよい", "さむい": hot, just right, cold).
Atsui == "atsui"
Choudoyoi == "choudoyoi"
Samui == "samui"
\* A label a client may send that is none of the three.
Other == "other"
\* The vote strings that requests carry.
Labels == {Atsui, Choudoyoi, Samui, Other}
\* The zero value of a Go string.
ZeroString == ""

\* var voteCounts = map[string]int{...} at process start.
InitVoteCounts == [c \in {Atsui, Choudoyoi, Samui} |-> 0]
\* var userVotes = make(map[string]string).
InitUserVotes == [u \in {} |-> ZeroString]

\* Responses of the handlers.
NoResponse == "none"
MethodNotAllowed == "405 Invalid request method"
BadRequestBody == "400 decode error"
InvalidCategory == "400 Invalid vote option"
VoteRecorded == "200 Vote recorded successfully"
ResultsOK == "200 results"

\* A request decoded into VoteRequest, and the value of an unset one.
NoRequest == [kind |-> "none", UserID |-> 0, Vote |-> ZeroString]
VoteRequest(u, v) == [kind |-> "vote", UserID |-> u, Vote |-> v]
ResultsRequest == [kind |-> "results", UserID |-> 0, Vote |-> ZeroString]

\* The body a results request has written: nothing yet.
NoResult == << >>

VARIABLES
    voteCounts,    \* map[string]int: votes per option
    userVotes,     \* map[string]string: each user's current option
    locked,        \* state of mutex: TRUE while some goroutine holds it
    pc,            \* per goroutine: the statement it executes next
    req,           \* per goroutine: the request it serves (or served last)
    response,      \* per goroutine: status/body written to the client
    result,        \* per goroutine: the JSON body written by resultsHandler
    crashed,       \* the runtime stopped the process (fatal error)
    started,       \* number of requests accepted by the server so far
    lin,           \* history: the maps after the accepted votes, each applied
                   \* whole, in the order in which they acquired the mutex
    atLock,        \* history: the two maps when the holder acquired the mutex
    repeats        \* history: number of accepted votes of a user for the
                   \* option that user already had

vars == <<voteCounts, userVotes, locked, pc, req, response,
          result, crashed, started, lin, atLock, repeats>>

\* -------------------------------------------------- statements of the code
\* Variant of line 48 that accepts every option.
ValidVoteAny(counts, v) == TRUE

\* Line 48: _, ok := voteCounts[req.Vote].
ValidVote(counts, v) == MapHas(counts, v)

\* Line 58: ok := userVotes[req.UserID].
Lookup(votes, u) == [ok |-> MapHas(votes, u), val |-> MapGet(votes, u, ZeroString)]

\* Variant of lines 58-60 that takes the old vote back also when it is the
\* same option, as the comment on line 59 has it.
NeedsDecrementAnyPrevious(prev, v) == prev.ok

\* Variant of lines 58-60 that forgets the ok of the lookup.
NeedsDecrementNoOk(prev, v) == prev.val # v

\* Lines 58-60: the decrement runs when a previous vote exists and differs.
NeedsDecrement(prev, v) == prev.ok /\ prev.val # v

\* Variant of line 61 that takes two from the old option's count.
DecrementTwice(counts, c) == MapSet(counts, c, MapGet(counts, c, 0) - 2)

\* Variant of line 61 that leaves the old option's count alone.
DecrementSkipped(counts, c) == counts

\* Line 61: voteCounts[previousVote]--.
Decrement(counts, c) == MapSet(counts, c, MapGet(counts, c, 0) - 1)

\* Line 66: voteCounts[req.Vote]++.
Increment(counts, c) == MapSet(counts, c, MapGet(counts, c, 0) + 1)

\* Variant of line 67 that starts a new map with the one entry.
RecordAlone(votes, u, v) == [x \in {u} |-> v]

\* Line 67: userVotes[req.UserID] = req.Vote.
Record(votes, u, v) == MapSet(votes, u, v)

\* Lines 58-67 run without interruption: the maps after one accepted vote.
CastVote(st, u, v) ==
    LET prev == Lookup(st.votes, u)
        c1 == IF NeedsDecrement(prev, v) THEN Decrement(st.counts, prev.val)
              ELSE st.counts
    IN [counts |-> Increment(c1, v), votes |-> Record(st.votes, u, v)]

\* ------------------------------------------------------------- mutex
\* Variant of the mutex that lets every caller in.
CanLockAlways == TRUE

\* mutex.Lock() can return only when the mutex is unlocked.
CanLock == ~locked

Init ==
    /\ voteCounts = InitVoteCounts
    /\ userVotes = InitUserVotes
    /\ locked = FALSE
    /\ pc = [p \in Procs |-> "idle"]
    /\ req = [p \in Procs |-> NoRequest]
    /\ response = [p \in Procs |-> NoResponse]
    /\ result = [p \in Procs |-> NoResult]
    /\ crashed = FALSE
    /\ started = 0
    /\ lin = [counts |-> InitVoteCounts, votes |-> InitUserVotes]
    /\ atLock = [counts |-> InitVoteCounts, votes |-> InitUserVotes]
    /\ repeats = 0

\* The server hands the next request to a free goroutine.
Accept(p) ==
    /\ ~crashed
    /\ pc[p] = "idle"
    /\ started < MaxRequests
    /\ started' = started + 1

\* voteHandler lines 37-40: a request to /vote that is not a POST.
VoteWrongMethod(p) ==
    /\ Accept(p)
    /\ response' = [response EXCEPT ![p] = MethodNotAllowed]
    /\ pc' = [pc EXCEPT ![p] = "done"]
    /\ UNCHANGED <<voteCounts, userVotes, locked, req, result,
                   crashed, lin, repeats, atLock>>

\* voteHandler lines 42-46: the body is not a JSON VoteRequest.
VoteBadBody(p) ==
    /\ Accept(p)
    /\ response' = [response EXCEPT ![p] = BadRequestBody]
    /\ pc' = [pc EXCEPT ![p] = "done"]
    /\ UNCHANGED <<voteCounts, userVotes, locked, req, result,
                   crashed, lin, repeats, atLock>>

\* voteHandler lines 37-46: a POST whose body decodes into req.
VoteDecode(p) ==
    /\ Accept(p)
    /\ \E u \in Users, v \in Labels :
          req' = [req EXCEPT ![p] = VoteRequest(u, v)]
    /\ pc' = [pc EXCEPT ![p] = "validate"]
    /\ UNCHANGED <<voteCounts, userVotes, locked, response,
                   result, crashed, lin, repeats, atLock>>

\* Some other goroutine is at a statement that writes voteCounts: the
\* decrement of line 61 or the increment of line 66.
WriterActive(p) ==
    \E q \in Procs \ {p} :
        \/ pc[q] = "inc"
        \/ /\ pc[q] = "previous"
           /\ NeedsDecrement(Lookup(userVotes, req[q].UserID), req[q].Vote)

\* Variant of lines 48-55 that checks the option only once the mutex is free.
VoteValidateWhenFree(p) ==
    /\ ~crashed
    /\ pc[p] = "validate"
    /\ CanLock
    /\ IF ValidVote(voteCounts, req[p].Vote)
       THEN /\ pc' = [pc EXCEPT ![p] = "lock"]
            /\ UNCHANGED <<req, response>>
       ELSE /\ pc' = [pc EXCEPT ![p] = "done"]
            /\ response' = [response EXCEPT ![p] = InvalidCategory]
            /\ req' = [req EXCEPT ![p] = NoRequest]
    /\ UNCHANGED <<voteCounts, userVotes, locked, result,
                   crashed, started, lin, repeats, atLock>>

\* voteHandler lines 48-51: the option is looked up in voteCounts, without
\* the mutex; an unknown option is answered with 400.
VoteValidate(p) ==
    /\ ~crashed
    /\ pc[p] = "validate"
    /\ IF ValidVote(voteCounts, req[p].Vote)
       THEN /\ pc' = [pc EXCEPT ![p] = "lock"]
            /\ UNCHANGED <<req, response>>
       ELSE /\ pc' = [pc EXCEPT ![p] = "done"]
            /\ response' = [response EXCEPT ![p] = InvalidCategory]
            /\ req' = [req EXCEPT ![p] = NoRequest]
    /\ UNCHANGED <<voteCounts, userVotes, locked, result,
                   crashed, started, lin, repeats, atLock>>

\* Line 48 reads voteCounts while another goroutine writes the map (lines
\* 61, 66): a data race.  The Go runtime may detect it and stop the process
\* with "fatal error: concurrent map read and map write".
VoteValidateRace(p) ==
    /\ ~crashed
    /\ pc[p] = "validate"
    /\ WriterActive(p)
    /\ crashed' = TRUE
    /\ UNCHANGED <<voteCounts, userVotes, locked, pc, req, response, result, started, lin, repeats, atLock>>

\* voteHandler line 54: mutex.Lock().
VoteLock(p) ==
    /\ ~crashed
    /\ pc[p] = "lock"
    /\ CanLock
    /\ locked' = TRUE
    /\ pc' = [pc EXCEPT ![p] = "previous"]
    /\ lin' = CastVote(lin, req[p].UserID, req[p].Vote)
    /\ repeats' = IF Lookup(userVotes, req[p].UserID) = [ok |-> TRUE, val |-> req[p].Vote]
                  THEN repeats + 1 ELSE repeats
    /\ atLock' = [counts |-> voteCounts, votes |-> userVotes]
    /\ UNCHANGED <<voteCounts, userVotes, req, response, result, crashed, started>>

\* voteHandler lines 58-63: read the user's previous vote and, when there is
\* one and it differs from the new vote, take one from its count.
VotePrevious(p) ==
    /\ ~crashed
    /\ pc[p] = "previous"
    /\ LET previousVote == Lookup(userVotes, req[p].UserID)
       IN voteCounts' = IF NeedsDecrement(previousVote, req[p].Vote)
                        THEN Decrement(voteCounts, previousVote.val)
                        ELSE voteCounts
    /\ pc' = [pc EXCEPT ![p] = "inc"]
    /\ UNCHANGED <<userVotes, locked, req, response, result, crashed, started,
                   lin, repeats, atLock>>

\* voteHandler line 66: voteCounts[req.Vote]++.
VoteIncrement(p) ==
    /\ ~crashed
    /\ pc[p] = "inc"
    /\ voteCounts' = Increment(voteCounts, req[p].Vote)
    /\ pc' = [pc EXCEPT ![p] = "record"]
    /\ UNCHANGED <<userVotes, locked, req, response, result, crashed, started,
                   lin, repeats, atLock>>

\* Variant of lines 67-73 that releases the mutex before the log lines and
\* the response are written.
VoteRecordThenUnlock(p) ==
    /\ ~crashed
    /\ pc[p] = "record"
    /\ userVotes' = Record(userVotes, req[p].UserID, req[p].Vote)
    /\ locked' = FALSE
    /\ response' = [response EXCEPT ![p] = VoteRecorded]
    /\ pc' = [pc EXCEPT ![p] = "unlock"]
    /\ UNCHANGED <<voteCounts, req, result, crashed, started, lin, repeats, atLock>>

\* Variant of line 67 that keeps the record a user already has.
VoteRecordKeepFirst(p) ==
    /\ ~crashed
    /\ pc[p] = "record"
    /\ userVotes' = IF MapHas(userVotes, req[p].UserID) THEN userVotes
                    ELSE Record(userVotes, req[p].UserID, req[p].Vote)
    /\ response' = [response EXCEPT ![p] = VoteRecorded]
    /\ pc' = [pc EXCEPT ![p] = "unlock"]
    /\ UNCHANGED <<voteCounts, locked, req, result, crashed, started, lin, repeats, atLock>>

\* voteHandler lines 67-73: userVotes[req.UserID] = req.Vote, then the two
\* log lines and the 200 response, all while the mutex is still held.
VoteRecord(p) ==
    /\ ~crashed
    /\ pc[p] = "record"
    /\ userVotes' = Record(userVotes, req[p].UserID, req[p].Vote)
    /\ response' = [response EXCEPT ![p] = VoteRecorded]
    /\ pc' = [pc EXCEPT ![p] = "unlock"]
    /\ UNCHANGED <<voteCounts, locked, req, result, crashed, started, lin, repeats, atLock>>

\* voteHandler lines 55, 74: the deferred mutex.Unlock() at return.
VoteUnlock(p) ==
    /\ ~crashed
    /\ pc[p] = "unlock"
    /\ locked' = FALSE
    /\ pc' = [pc EXCEPT ![p] = "done"]
    /\ req' = [req EXCEPT ![p] = NoRequest]
    /\ UNCHANGED <<voteCounts, userVotes, response, result,
                   crashed, started, lin, repeats, atLock>>

\* resultsHandler lines 78-81: a request to /results that is not a GET.
ResultsWrongMethod(p) ==
    /\ Accept(p)
    /\ response' = [response EXCEPT ![p] = MethodNotAllowed]
    /\ pc' = [pc EXCEPT ![p] = "done"]
    /\ UNCHANGED <<voteCounts, userVotes, locked, req, result,
                   crashed, lin, repeats, atLock>>

\* resultsHandler lines 78-82: a GET /results.
ResultsStart(p) ==
    /\ Accept(p)
    /\ req' = [req EXCEPT ![p] = ResultsRequest]
    /\ pc' = [pc EXCEPT ![p] = "rlock"]
    /\ UNCHANGED <<voteCounts, userVotes, locked, response,
                   result, crashed, lin, repeats, atLock>>

\* Variant of resultsHandler that reads the tally without the mutex.
ResultsNoLock(p) ==
    /\ ~crashed
    /\ pc[p] = "rlock"
    /\ pc' = [pc EXCEPT ![p] = "encode"]
    /\ UNCHANGED <<voteCounts, userVotes, locked, req, response, result,
                   crashed, started, lin, repeats, atLock>>

\* resultsHandler line 83: mutex.Lock().
ResultsLock(p) ==
    /\ ~crashed
    /\ pc[p] = "rlock"
    /\ CanLock
    /\ locked' = TRUE
    /\ pc' = [pc EXCEPT ![p] = "encode"]
    /\ atLock' = [counts |-> voteCounts, votes |-> userVotes]
    /\ UNCHANGED <<voteCounts, userVotes, req, response, result,
                   crashed, started, lin, repeats>>

\* Variant of lines 86-89 that empties the tally once it is written.
ResultsEncodeAndReset(p) ==
    /\ ~crashed
    /\ pc[p] = "encode"
    /\ result' = [result EXCEPT ![p] = voteCounts]
    /\ voteCounts' = InitVoteCounts
    /\ response' = [response EXCEPT ![p] = ResultsOK]
    /\ pc' = [pc EXCEPT ![p] = "runlock"]
    /\ UNCHANGED <<userVotes, locked, req, crashed, started, lin, repeats, atLock>>

\* resultsHandler lines 86-89: header, status 200 and the JSON of voteCounts,
\* written while the mutex is held.
ResultsEncode(p) ==
    /\ ~crashed
    /\ pc[p] = "encode"
    /\ result' = [result EXCEPT ![p] = voteCounts]
    /\ response' = [response EXCEPT ![p] = ResultsOK]
    /\ pc' = [pc EXCEPT ![p] = "runlock"]
    /\ UNCHANGED <<voteCounts, userVotes, locked, req, crashed, started, lin, repeats, atLock>>

\* resultsHandler lines 84, 90: the deferred mutex.Unlock() at return.
ResultsUnlock(p) ==
    /\ ~crashed
    /\ pc[p] = "runlock"
    /\ locked' = FALSE
    /\ pc' = [pc EXCEPT ![p] = "done"]
    /\ req' = [req EXCEPT ![p] = NoRequest]
    /\ UNCHANGED <<voteCounts, userVotes, response, result,
                   crashed, started, lin, repeats, atLock>>

\* The handler has returned and the client has its response: the goroutine
\* is free for the next request.
Finish(p) ==
    /\ ~crashed
    /\ pc[p] = "done"
    /\ pc' = [pc EXCEPT ![p] = "idle"]
    /\ response' = [response EXCEPT ![p] = NoResponse]
    /\ result' = [result EXCEPT ![p] = NoResult]
    /\ UNCHANGED <<voteCounts, userVotes, locked, req, crashed, started, lin, repeats, atLock>>

Next ==
    \/ \E p \in Procs : VoteWrongMethod(p)
    \/ \E p \in Procs : VoteBadBody(p)
    \/ \E p \in Procs : VoteDecode(p)
    \/ \E p \in Procs : VoteValidate(p)
    \/ \E p \in Procs : VoteValidateRace(p)
    \/ \E p \in Procs : VoteLock(p)
    \/ \E p \in Procs : VotePrevious(p)
    \/ \E p \in Procs : VoteIncrement(p)
    \/ \E p \in Procs : VoteRecord(p)
    \/ \E p \in Procs : VoteUnlock(p)
    \/ \E p \in Procs : ResultsWrongMethod(p)
    \/ \E p \in Procs : ResultsStart(p)
    \/ \E p \in Procs : ResultsLock(p)
    \/ \E p \in Procs : ResultsEncode(p)
    \/ \E p \in Procs : ResultsUnlock(p)
    \/ \E p \in Procs : Finish(p)

Spec == Init /\ [][Next]_vars

\* The steps of a handler that has been started, for goroutine p.
HandlerStep(p) ==
    \/ VoteValidate(p) \/ VotePrevious(p) \/ VoteIncrement(p) \/ VoteRecord(p)
    \/ VoteUnlock(p) \/ ResultsEncode(p) \/ ResultsUnlock(p) \/ Finish(p)

\* Fair scheduling: the Go scheduler runs every runnable goroutine, and
\* sync.Mutex hands the mutex to a goroutine that keeps waiting for it
\* (starvation mode), so a waiter is not passed over for ever.
FairSpec ==
    /\ Spec
    /\ \A p \in Procs : WF_vars(HandlerStep(p))
    /\ \A p \in Procs : SF_vars(VoteLock(p)) /\ SF_vars(ResultsLock(p))

\* ------------------------------------------------------ notions of the claims
\* The fixed enumeration of vote options.
Categories == {Atsui, Choudoyoi, Samui}

\* A goroutine is between its mutex.Lock() and its mutex.Unlock().
InBody(p) == pc[p] \in {"previous", "inc", "record", "unlock", "encode", "runlock"}

\* No invocation is inside its body: the maps are between two operations.
Quiescent == \A p \in Procs : ~InBody(p)

\* Number of users whose record is option c.
Histogram(votes, c) == Cardinality({u \in DOMAIN votes : votes[u] = c})

\* Sum of the counts of a tally.
RECURSIVE SumOver(_, _)
SumOver(counts, keys) ==
    IF keys = {} THEN 0
    ELSE LET k == CHOOSE x \in keys : TRUE
         IN counts[k] + SumOver(counts, keys \ {k})
Sum(counts) == SumOver(counts, DOMAIN counts)

\* The goroutine p has run lines 58-67 of an accepted vote and still holds
\* the mutex; atLock holds the maps as they were when it acquired it.
VoteApplied(p) == pc[p] = "unlock"

\* The tally differs from the one before the call by exactly: minus one at
\* each option of minus, plus one at each option of plus.
TallyMoved(minus, plus) ==
    /\ DOMAIN voteCounts = DOMAIN atLock.counts
    /\ \A c \in DOMAIN voteCounts :
          voteCounts[c] = atLock.counts[c]
                          - (IF c \in minus THEN 1 ELSE 0)
                          + (IF c \in plus THEN 1 ELSE 0)

\* Every user other than u has the record it had before the call.
OthersKept(u) ==
    /\ DOMAIN userVotes \ {u} = DOMAIN atLock.votes \ {u}
    /\ \A w \in DOMAIN userVotes \ {u} : userVotes[w] = atLock.votes[w]

\* ------------------------------------------------------------------ claims

\* C1: whenever no invocation is inside its body, the count of every option
\* equals the number of users whose record is that option (voteCounts is the
\* histogram of userVotes).  The code breaks it: a second vote of a user for
\* the option it already has adds one to the count.
C1_TallyIsHistogram ==
    Quiescent => \A c \in Categories : MapGet(voteCounts, c, 0) = Histogram(userVotes, c)

\* C2: whenever no invocation is inside its body, the sum of the counts
\* equals the number of distinct users that have cast a valid vote (the users
\* with a record).  The code breaks it in the same way.
C2_SumIsVoters ==
    Quiescent => Sum(voteCounts) = Cardinality(DOMAIN userVotes)

\* C3 (P1): in every reachable state, also inside a vote's body, every count
\* of the tally is >= 0, and so is every count that a results response holds.
C3_NonNegative ==
    /\ \A c \in DOMAIN voteCounts : voteCounts[c] >= 0
    /\ \A p \in Procs : \A c \in DOMAIN result[p] : result[p][c] >= 0

\* C3 witness: a vote that moves a user away from an option has taken the
\* last vote from that option's count.
C3_Witness ==
    \E p \in Procs : \E c \in Categories :
        pc[p] = "inc" /\ atLock.counts[c] = 1 /\ voteCounts[c] = 0

\* C4 (P3): a vote whose option is not in the enumeration never gets past the
\* check of line 48, and the step that ends it answers InvalidCategory and
\* leaves voteCounts and userVotes as they were.
C4_InvalidIsNoOp ==
    /\ [](\A p \in Procs :
            (req[p].kind = "vote" /\ req[p].Vote \notin Categories)
                => pc[p] = "validate")
    /\ [][\A p \in Procs :
            (/\ pc[p] = "validate"
             /\ req[p].Vote \notin Categories
             /\ pc'[p] # "validate")
                => /\ pc'[p] = "done"
                   /\ response'[p] = InvalidCategory
                   /\ voteCounts' = voteCounts
                   /\ userVotes' = userVotes]_vars

\* C4 witness: a vote was answered InvalidCategory when every user, hence
\* also the one that sent it, had a record.
C4_Witness ==
    \E p \in Procs :
        pc[p] = "done" /\ response[p] = InvalidCategory /\ DOMAIN userVotes = Users

\* C5 (P4): when a user whose record is A votes for a different valid option
\* B, then after the call the count of A is one less, the count of B one
\* more, every other count and every other user's record the same, and the
\* user's record is B.
C5_SwitchMovesOneVote ==
    \A p \in Procs :
        LET u == req[p].UserID
            B == req[p].Vote
        IN (VoteApplied(p) /\ u \in DOMAIN atLock.votes /\ atLock.votes[u] # B)
              => /\ TallyMoved({atLock.votes[u]}, {B})
                 /\ MapHas(userVotes, u) /\ userVotes[u] = B
                 /\ OthersKept(u)

\* C5 witness: a user has switched from one option to another.
C5_Witness ==
    \E p \in Procs :
        /\ VoteApplied(p)
        /\ req[p].UserID \in DOMAIN atLock.votes
        /\ atLock.votes[req[p].UserID] # req[p].Vote

C7_FirstVote ==
    \A p \in Procs :
        LET u == req[p].UserID
            C == req[p].Vote
        IN (VoteApplied(p) /\ u \notin DOMAIN atLock.votes)
              => /\ TallyMoved({}, {C})
                 /\ MapHas(userVotes, u) /\ userVotes[u] = C
                 /\ OthersKept(u)

\* C7 witness: a user has cast its first vote while another user had a record.
C7_Witness ==
    \E p \in Procs :
        /\ VoteApplied(p)
        /\ req[p].UserID \notin DOMAIN atLock.votes
        /\ DOMAIN atLock.votes # {}

\* A vote of user u has acquired the mutex and has not yet written the record.
RecordPending(u) ==
    \E p \in Procs : pc[p] \in {"previous", "inc", "record"} /\ req[p].UserID = u

\* C8 (P2): a user has a record exactly when one of its votes was accepted,
\* and once that vote's write is done the record is the option of the user's
\* most recently accepted vote, in the order of the lock acquisitions; a
\* record is never removed, and a user's record changes only in the write of
\* line 67 of a vote of that user for an option of the enumeration.
C8_RecordIsLastAccepted ==
    /\ [](\A u \in Users :
            ~RecordPending(u)
                => /\ MapHas(userVotes, u) <=> MapHas(lin.votes, u)
                   /\ MapHas(userVotes, u) => userVotes[u] = lin.votes[u])
    /\ [][/\ DOMAIN userVotes \subseteq DOMAIN userVotes'
          /\ \A u \in Users :
                (MapHas(userVotes', u) /\ Lookup(userVotes', u) # Lookup(userVotes, u))
                    => \E p \in Procs :
                          /\ pc[p] = "record" /\ pc'[p] = "unlock"
                          /\ req[p].UserID = u
                          /\ req[p].Vote \in Categories
                          /\ userVotes'[u] = req[p].Vote]_vars

\* C8 witness: a user's record was overwritten by a later vote of that user
\* while another user has a record too.
C8_Witness ==
    \E p \in Procs : \E u \in Users :
        /\ pc[p] = "unlock" /\ req[p].UserID = u
        /\ MapHas(atLock.votes, u) /\ atLock.votes[u] # userVotes[u]
        /\ DOMAIN userVotes # {u}

\* C9: at most one invocation, of either handler, is between its
\* mutex.Lock() and its mutex.Unlock().
C9_MutualExclusion ==
    Cardinality({p \in Procs : InBody(p)}) <= 1

\* C9 witness: one invocation is inside its body while another waits for
\* the mutex.
C9_Witness ==
    \E p, q \in Procs : InBody(p) /\ pc[q] \in {"lock", "rlock"}

\* C10: the tally that a results response holds is the tally after exactly
\* the votes that acquired the mutex before it, each applied whole (lines
\* 58-67 without interruption) in lock order; no response holds a tally in
\* which a vote's decrement is visible without its increment.
C10_SnapshotIsPrefix ==
    \A p \in Procs : pc[p] = "runlock" => result[p] = lin.counts

\* C10 witness: a results response holds a tally with a vote in it while a
\* vote of another goroutine waits for the mutex.
C10_Witness ==
    \E p, q \in Procs :
        /\ pc[p] = "runlock" /\ pc[q] = "lock"
        /\ \E c \in Categories : result[p][c] >= 1

\* C11: whenever no invocation is inside its body the mutex is free, and
\* under fair scheduling every invocation that has started returns.  The
\* code breaks the second part: the read of voteCounts at line 48 is made
\* without the mutex, and when it meets a write of lines 61 or 66 the runtime
\* may stop the process, after which no invocation returns.
C11_LockReleasedAndReturns ==
    /\ [](Quiescent => ~locked)
    /\ \A p \in Procs : (pc[p] \notin {"idle", "done"}) ~> (pc[p] = "done")

\* C12, as claimed: between mutex.Lock() and mutex.Unlock() nothing is
\* written to the client.  The code breaks it: the unlock is deferred to
\* the return, after the writes of lines 69-73 and 86-89.
C12_NoIOUnderLock ==
    \A p \in Procs : InBody(p) => response[p] = NoResponse

\* C12, amended: the success responses are written while the writer holds
\* the mutex: a goroutine that has written its 200 and has not returned
\* still holds the mutex, and every goroutine about to unlock has written it.
C12_ResponseWrittenUnderLock ==
    \A p \in Procs :
        /\ (response[p] \in {VoteRecorded, ResultsOK} /\ pc[p] # "done")
              => (locked /\ pc[p] \in {"unlock", "runlock"})
        /\ pc[p] \in {"unlock", "runlock"}
              => (locked /\ response[p] \in {VoteRecorded, ResultsOK})

\* C12 witness: a vote's response is written and the mutex still held while
\* another invocation waits for the mutex.
C12_Witness ==
    \E p, q \in Procs :
        /\ pc[p] = "unlock" /\ response[p] = VoteRecorded /\ locked
        /\ pc[q] \in {"lock", "rlock"}

\* ------------------------------------------------- the sequential scenario
\* The calls of the scenario of the testable properties, each vote followed
\* by a results query (Hot is "atsui", Mild "choudoyoi", Cold "samui"; u1 and
\* u2 are the users 1 and 2).
Scenario ==
    << VoteRequest(1, Atsui), ResultsRequest,
       VoteRequest(1, Samui), ResultsRequest,
       VoteRequest(1, Samui), ResultsRequest,
       VoteRequest(2, Atsui), ResultsRequest >>

\* The tallies that the scenario expects from its four results queries.
ScenarioSnapshots ==
    << [c \in Categories |-> IF c = Atsui THEN 1 ELSE 0],
       [c \in Categories |-> IF c = Samui THEN 1 ELSE 0],
       [c \in Categories |-> IF c = Samui THEN 2 ELSE 0],
       [c \in Categories |-> IF c = Atsui THEN 1 ELSE IF c = Samui THEN 2 ELSE 0] >>

\* The next call of the scenario is sent once the call before it has
\* returned; any free goroutine serves it.
ScenarioStart(p) ==
    /\ ~crashed
    /\ pc[p] = "idle"
    /\ \A q \in Procs : pc[q] \in {"idle", "done"}
    /\ started < Len(Scenario)
    /\ started' = started + 1
    /\ req' = [req EXCEPT ![p] = Scenario[started + 1]]
    /\ pc' = [pc EXCEPT ![p] =
                IF Scenario[started + 1].kind = "vote" THEN "validate" ELSE "rlock"]
    /\ UNCHANGED <<voteCounts, userVotes, locked, response, result, crashed,
                   lin, repeats, atLock>>

ScenarioNext ==
    \/ \E p \in Procs : ScenarioStart(p)
    \/ \E p \in Procs : VoteValidate(p)
    \/ \E p \in Procs : VoteLock(p)
    \/ \E p \in Procs : VotePrevious(p)
    \/ \E p \in Procs : VoteIncrement(p)
    \/ \E p \in Procs : VoteRecord(p)
    \/ \E p \in Procs : VoteUnlock(p)
    \/ \E p \in Procs : ResultsLock(p)
    \/ \E p \in Procs : ResultsEncode(p)
    \/ \E p \in Procs : ResultsUnlock(p)
    \/ \E p \in Procs : Finish(p)

ScenarioSpec == Init /\ [][ScenarioNext]_vars

C14_SnapshotHasNoEffect ==
    /\ [](\A p \in Procs :
            pc[p] = "runlock"
                => (response[p] = ResultsOK /\ DOMAIN result[p] = Categories))
    /\ [][\A p \in Procs :
            (/\ pc'[p] # pc[p]
             /\ (pc[p] \in {"rlock", "encode", "runlock"} \/ pc'[p] = "rlock"))
                => /\ voteCounts' = voteCounts
                   /\ userVotes' = userVotes
                   /\ lin' = lin]_vars

\* C14 witness: a results query has returned a tally with a vote in it and
\* the tally is still what it was.
C14_Witness ==
    \E p \in Procs :
        /\ pc[p] = "done" /\ response[p] = ResultsOK
        /\ result[p] = voteCounts
        /\ \E c \in Categories : voteCounts[c] >= 1

\* C15: every option stored in userVotes is one of the enumeration, and the
\* keys of voteCounts are exactly the enumeration, in every reachable state.
C15_OnlyEnumeratedOptions ==
    /\ \A u \in DOMAIN userVotes : userVotes[u] \in Categories
    /\ DOMAIN voteCounts = Categories

\* C15 witness: a vote for an option outside the enumeration was answered
\* while a user has a record.
C15_Witness ==
    \E p \in Procs : response[p] = InvalidCategory /\ DOMAIN userVotes # {}

\* C16: a vote for an option outside the enumeration never waits for or
\* holds the mutex, and as long as the process runs its rejection (lines
\* 48-51) can be taken whatever the state of the mutex.
C16_InvalidNeverLocks ==
    \A p \in Procs :
        (req[p].kind = "vote" /\ req[p].Vote \notin Categories)
            => /\ pc[p] \notin {"lock", "rlock"} /\ ~InBody(p)
               /\ ~crashed => ENABLED VoteValidate(p)

\* C16 witness: a vote was answered InvalidCategory while another
\* invocation holds the mutex.
C16_Witness ==
    \E p, q \in Procs :
        /\ pc[p] = "done" /\ response[p] = InvalidCategory
        /\ locked /\ InBody(q)

\* C17: no handler reads voteCounts without the mutex while another handler
\* is inside the critical section at a statement that writes voteCounts.
\* The code breaks it: the lookup of line 48 is made before mutex.Lock().
C17_MapAccessUnderLock ==
    /\ ~crashed
    /\ \A p \in Procs : pc[p] = "validate" => ~WriterActive(p)

\* Number of votes that have taken one from the count of option c (line 61)
\* and have not yet written the user's new record (line 67).
MovingAway(c) ==
    Cardinality({p \in Procs :
        /\ pc[p] \in {"inc", "record"}
        /\ MapHas(userVotes, req[p].UserID)
        /\ userVotes[req[p].UserID] = c
        /\ req[p].Vote # c})

\* C18: the count of every option is at least the number of users whose
\* record is that option (less the one vote that is being moved away while a
\* switch is between its lines 61 and 67), and the decrement of line 61 is
\* only reached with a count >= 1.
C18_TallyCoversRecords ==
    /\ \A c \in Categories :
          voteCounts[c] >= Histogram(userVotes, c) - MovingAway(c)
    /\ \A p \in Procs :
          LET u == req[p].UserID
          IN (pc[p] = "previous" /\ MapHas(userVotes, u) /\ userVotes[u] # req[p].Vote)
                => voteCounts[userVotes[u]] >= 1

\* C18 witness: a switch has taken one vote from an option that had two.
C18_Witness ==
    \E p \in Procs : \E c \in Categories :
        pc[p] = "inc" /\ atLock.counts[c] = 2 /\ voteCounts[c] = 1

SeqCastVote ==
    /\ started < MaxRequests
    /\ \E u \in Users, v \in Categories :
          LET after == CastVote([counts |-> voteCounts, votes |-> userVotes], u, v)
          IN /\ voteCounts' = after.counts
             /\ userVotes' = after.votes
    /\ started' = started + 1
    /\ UNCHANGED <<locked, pc, req, response, result, crashed, lin, atLock, repeats>>

\* One results query, line 89, answered without any other goroutine running.
SeqSnapshot ==
    /\ started < MaxRequests
    /\ \E p \in Procs : result' = [result EXCEPT ![p] = voteCounts]
    /\ started' = started + 1
    /\ UNCHANGED <<voteCounts, userVotes, locked, pc, req, response, crashed,
                   lin, atLock, repeats>>

SeqNext == SeqCastVote \/ SeqSnapshot

SeqSpec == Init /\ [][SeqNext]_vars

\* C20: accepted votes of different users commute: from every state of the
\* maps, for users u # v and options a, b of the enumeration, applying
\* (u, a) then (v, b) gives the same voteCounts and userVotes as applying
\* (v, b) then (u, a).
C20_VotesOfDifferentUsersCommute ==
    LET s == [counts |-> voteCounts, votes |-> userVotes]
    IN \A u, v \in Users : \A a, b \in Categories :
          u # v => CastVote(CastVote(s, u, a), v, b) = CastVote(CastVote(s, v, b), u, a)

\* C20 witness: two users have a record for the same option, so that a
\* switch of either takes from the count the other's vote is in.
C20_Witness ==
    \E u, v \in DOMAIN userVotes : u # v /\ userVotes[u] = userVotes[v]

====
